---- MODULE Spec2Model ----
(***************************************************************************)
(* Tenant propagation across RPC calls (internal/tenant/grpc.go).          *)
(*                                                                         *)
(* Propagator.FromContext turns the tenant of an execution context into    *)
(* one metadata entry; Propagator.InjectContext turns the first value of   *)
(* that entry back into a tenant on the callee's context.                  *)
(*                                                                         *)
(* Strings are sequences of one-character strings, so that the decimal     *)
(* encoding (strconv.Itoa) and its parse (tenanttype.Unmarshal) are        *)
(* computed digit by digit.  Contexts are immutable nodes of a heap:       *)
(* context 0 is context.Background(), context i > 0 is heap[i].            *)
(***************************************************************************)
EXTENDS Integers, Sequences, FiniteSets, TLC

VARIABLES heap, calls, last, arg

vars == <<heap, calls, last, arg>>

----------------------------------------------------------------------------
(* Bounds *)

\* Most context nodes ever derived from Background.
MaxCtx == 3
\* Tenant ids 1..MaxTenant (and 42, the id of the end-to-end scenario).
MaxTenant == 1
\* RPC calls issued.
NumCalls == 2
\* Longest header value built from Alphabet.
MaxLen == 2
\* Most values under one metadata key.
MaxVals == 2

----------------------------------------------------------------------------
(* Strings *)

EmptyString == <<>>

Digits == <<"0", "1", "2", "3", "4", "5", "6", "7", "8", "9">>

DigitChar(d) == Digits[d + 1]

IsDigit(ch) == \E i \in 1..10 : Digits[i] = ch

DigitVal(ch) == (CHOOSE i \in 1..10 : Digits[i] = ch) - 1

RECURSIVE FormatUint(_)
FormatUint(n) ==
    IF n < 10 THEN <<DigitChar(n)>>
    ELSE FormatUint(n \div 10) \o <<DigitChar(n % 10)>>

\* strconv.Itoa: base-10 text of n, "-" first for a negative n.
Itoa(n) == IF n < 0 THEN <<"-">> \o FormatUint(-n) ELSE FormatUint(n)

----------------------------------------------------------------------------
(* Constants of the wire contract *)

headerKeyTenantID == "X-Sourcegraph-Tenant-ID"

headerValueNoTenant == <<"n", "o", "n", "e">>

\* Another entry travelling in the same metadata.
otherKey == "x-other"

\* strings.ToLower on the metadata keys in play.
ToLower(k) == IF k = "X-Sourcegraph-Tenant-ID" THEN "x-sourcegraph-tenant-id" ELSE k

----------------------------------------------------------------------------
(* Errors *)

Nil == "nil"
ErrNoTenant == "NoTenant"
ErrInvalidTenantValue == "InvalidTenantValue"
InvalidArgument == "InvalidArgument"

----------------------------------------------------------------------------
(* Tenant context store (tenanttype) *)

Background == 0

Contexts(h) == 0..Len(h)

\* tenanttype.FromContext: the tenant attached to ctx, or NoTenant.
tenanttype_FromContext(h, ctx) ==
    IF ctx = Background THEN [tenant |-> 0, err |-> ErrNoTenant]
    ELSE [tenant |-> h[ctx].tenant, err |-> Nil]

\* tenanttype.WithTenant: a new context derived from ctx; ctx itself is kept.
tenanttype_WithTenant(h, ctx, id) ==
    [heap |-> Append(h, [parent |-> ctx, tenant |-> id]), ctx |-> Len(h) + 1]

RECURSIVE ParseDigits(_, _)
ParseDigits(s, acc) ==
    IF s = <<>> THEN acc
    ELSE ParseDigits(Tail(s), acc * 10 + DigitVal(Head(s)))

\* tenanttype.Unmarshal: the id a text encodes; fails unless the text is the
\* encoding of a positive integer (digits only, no sign, no leading zero).
tenanttype_Unmarshal(raw) ==
    IF /\ raw # <<>>
       /\ \A i \in 1..Len(raw) : IsDigit(raw[i])
       /\ raw[1] # "0"
    THEN [tenant |-> ParseDigits(raw, 0), err |-> Nil]
    ELSE [tenant |-> 0, err |-> ErrInvalidTenantValue]

----------------------------------------------------------------------------
(* Transport metadata (metadata.MD): lower-cased key -> list of values *)

EmptyMD == [k \in {} |-> <<>>]

\* md.Append(k, v)
MDAppend(md, k, v) ==
    LET lk == ToLower(k) IN
    IF lk \in DOMAIN md THEN [md EXCEPT ![lk] = Append(@, v)]
    ELSE md @@ (lk :> <<v>>)

\* md.Get(k)
MDGet(md, k) ==
    LET lk == ToLower(k) IN
    IF lk \in DOMAIN md THEN md[lk] ELSE <<>>

----------------------------------------------------------------------------
(* Propagator *)

\* Faulty variant: the caller writes another spelling of the sentinel.
FromContext_WrongSentinel(h, ctx) ==
    LET t == tenanttype_FromContext(h, ctx) IN
    IF t.err # Nil
    THEN MDAppend(EmptyMD, headerKeyTenantID, <<"N", "o", "n", "e">>)
    ELSE MDAppend(EmptyMD, headerKeyTenantID, Itoa(t.tenant))

\* Faulty variant: the sentinel is appended before the tenant is looked up, and the
\* id after it.
FromContext_TwoValues(h, ctx) ==
    LET t == tenanttype_FromContext(h, ctx)
        md == MDAppend(EmptyMD, headerKeyTenantID, headerValueNoTenant)
    IN  IF t.err # Nil THEN md ELSE MDAppend(md, headerKeyTenantID, Itoa(t.tenant))

\* Faulty variant: the tenant is read from the context attached last in the
\* process (a shared "current tenant") instead of from ctx.
FromContext_Shared(h, ctx) ==
    LET t == tenanttype_FromContext(h, Len(h)) IN
    IF t.err # Nil
    THEN MDAppend(EmptyMD, headerKeyTenantID, headerValueNoTenant)
    ELSE MDAppend(EmptyMD, headerKeyTenantID, Itoa(t.tenant))

\* Faulty variant: the digits of the id are written least significant first.
FromContext_Reversed(h, ctx) ==
    LET t == tenanttype_FromContext(h, ctx)
        d == Itoa(t.tenant)
    IN  IF t.err # Nil
        THEN MDAppend(EmptyMD, headerKeyTenantID, headerValueNoTenant)
        ELSE MDAppend(EmptyMD, headerKeyTenantID,
                      [i \in 1..Len(d) |-> d[Len(d) + 1 - i]])

\* Propagator.FromContext (the spec's Extract).
FromContext(h, ctx) ==
    LET t == tenanttype_FromContext(h, ctx) IN
    IF t.err # Nil
    THEN MDAppend(EmptyMD, headerKeyTenantID, headerValueNoTenant)
    ELSE MDAppend(EmptyMD, headerKeyTenantID, Itoa(t.tenant))

\* Faulty variant: the parsed tenant is dropped; ctx is returned as it came.
InjectContext_NoAttach(h, ctx, md) ==
    LET vals == MDGet(md, headerKeyTenantID)
        raw == IF Len(vals) > 0 THEN vals[1] ELSE EmptyString
    IN  IF raw = EmptyString \/ raw = headerValueNoTenant
        THEN [heap |-> h, ctx |-> ctx, err |-> Nil]
        ELSE LET t == tenanttype_Unmarshal(raw) IN
             IF t.err # Nil
             THEN [heap |-> h, ctx |-> ctx, err |-> InvalidArgument]
             ELSE [heap |-> h, ctx |-> ctx, err |-> Nil]

\* Faulty variant: the parse error is ignored and the zero tenant attached.
InjectContext_IgnoreErr(h, ctx, md) ==
    LET vals == MDGet(md, headerKeyTenantID)
        raw == IF Len(vals) > 0 THEN vals[1] ELSE EmptyString
    IN  IF raw = EmptyString \/ raw = headerValueNoTenant
        THEN [heap |-> h, ctx |-> ctx, err |-> Nil]
        ELSE LET t == tenanttype_Unmarshal(raw)
                 w == tenanttype_WithTenant(h, ctx, t.tenant)
             IN  [heap |-> w.heap, ctx |-> w.ctx, err |-> Nil]

\* Faulty variant: only the sentinel means "no tenant"; an empty value is parsed.
InjectContext_EmptyParsed(h, ctx, md) ==
    LET vals == MDGet(md, headerKeyTenantID)
        raw == IF Len(vals) > 0 THEN vals[1] ELSE EmptyString
    IN  IF raw = headerValueNoTenant
        THEN [heap |-> h, ctx |-> ctx, err |-> Nil]
        ELSE LET t == tenanttype_Unmarshal(raw) IN
             IF t.err # Nil
             THEN [heap |-> h, ctx |-> ctx, err |-> InvalidArgument]
             ELSE LET w == tenanttype_WithTenant(h, ctx, t.tenant) IN
                  [heap |-> w.heap, ctx |-> w.ctx, err |-> Nil]

\* Faulty variant: only an empty value means "no tenant"; the sentinel is parsed.
InjectContext_SentinelParsed(h, ctx, md) ==
    LET vals == MDGet(md, headerKeyTenantID)
        raw == IF Len(vals) > 0 THEN vals[1] ELSE EmptyString
    IN  IF raw = EmptyString
        THEN [heap |-> h, ctx |-> ctx, err |-> Nil]
        ELSE LET t == tenanttype_Unmarshal(raw) IN
             IF t.err # Nil
             THEN [heap |-> h, ctx |-> ctx, err |-> InvalidArgument]
             ELSE LET w == tenanttype_WithTenant(h, ctx, t.tenant) IN
                  [heap |-> w.heap, ctx |-> w.ctx, err |-> Nil]

\* Faulty variant: the tenant is stored into ctx itself when ctx already holds one.
InjectContext_InPlace(h, ctx, md) ==
    LET vals == MDGet(md, headerKeyTenantID)
        raw == IF Len(vals) > 0 THEN vals[1] ELSE EmptyString
    IN  IF raw = EmptyString \/ raw = headerValueNoTenant
        THEN [heap |-> h, ctx |-> ctx, err |-> Nil]
        ELSE LET t == tenanttype_Unmarshal(raw) IN
             IF t.err # Nil
             THEN [heap |-> h, ctx |-> ctx, err |-> InvalidArgument]
             ELSE IF ctx # Background
                  THEN [heap |-> [h EXCEPT ![ctx].tenant = t.tenant],
                        ctx |-> ctx, err |-> Nil]
                  ELSE LET w == tenanttype_WithTenant(h, ctx, t.tenant) IN
                       [heap |-> w.heap, ctx |-> w.ctx, err |-> Nil]

\* Faulty variant: the last value under the key is taken instead of the first.
InjectContext_LastValue(h, ctx, md) ==
    LET vals == MDGet(md, headerKeyTenantID)
        raw == IF Len(vals) > 0 THEN vals[Len(vals)] ELSE EmptyString
    IN  IF raw = EmptyString \/ raw = headerValueNoTenant
        THEN [heap |-> h, ctx |-> ctx, err |-> Nil]
        ELSE LET t == tenanttype_Unmarshal(raw) IN
             IF t.err # Nil
             THEN [heap |-> h, ctx |-> ctx, err |-> InvalidArgument]
             ELSE LET w == tenanttype_WithTenant(h, ctx, t.tenant) IN
                  [heap |-> w.heap, ctx |-> w.ctx, err |-> Nil]

\* Propagator.InjectContext (the spec's Inject): the context returned, the
\* error returned, and the heap after the call.
InjectContext(h, ctx, md) ==
    LET vals == MDGet(md, headerKeyTenantID)
        raw == IF Len(vals) > 0 THEN vals[1] ELSE EmptyString
    IN  IF raw = EmptyString \/ raw = headerValueNoTenant
        THEN [heap |-> h, ctx |-> ctx, err |-> Nil]
        ELSE LET t == tenanttype_Unmarshal(raw) IN
             IF t.err # Nil
             THEN [heap |-> h, ctx |-> ctx, err |-> InvalidArgument]
             ELSE LET w == tenanttype_WithTenant(h, ctx, t.tenant) IN
                  [heap |-> w.heap, ctx |-> w.ctx, err |-> Nil]

----------------------------------------------------------------------------
(* Inputs *)

TenantIds == (1..MaxTenant) \cup {42}

Alphabet == {"0", "5", "-", "a"}

RECURSIVE StringsOfLen(_)
StringsOfLen(n) ==
    IF n = 0 THEN {<<>>}
    ELSE {Append(s, ch) : s \in StringsOfLen(n - 1), ch \in Alphabet}

\* Header values a peer may send: every string over Alphabet up to MaxLen,
\* the sentinel, near misses of it, and the spec's examples.
HeaderValues ==
    UNION {StringsOfLen(n) : n \in 0..MaxLen}
    \cup {headerValueNoTenant, <<"n", "o", "n">>, <<"N", "o", "n", "e">>,
          <<"a", "b", "c">>, <<"4", "2">>, <<"+", "5">>}

\* Values that may follow the first one under the reserved key.
LaterValues == {headerValueNoTenant, <<"5">>, <<"a", "b", "c">>}

RECURSIVE SeqsUpTo(_, _)
SeqsUpTo(S, n) ==
    IF n = 0 THEN {<<>>}
    ELSE SeqsUpTo(S, n - 1) \cup
         {Append(s, x) : s \in {q \in SeqsUpTo(S, n - 1) : Len(q) = n - 1}, x \in S}

\* Value lists under the reserved key: none at all, or a first value and
\* up to MaxVals - 1 later ones.
ValueLists ==
    {<<>>} \cup {<<v>> \o rest : v \in HeaderValues, rest \in SeqsUpTo(LaterValues, MaxVals - 1)}

WithOther(md, present) == IF present THEN md @@ (otherKey :> <<<<"5">>>>) ELSE md

\* Incoming metadata: the reserved key absent or holding a value list, with
\* or without an unrelated entry beside it.
IncomingMDs ==
    {WithOther(EmptyMD, o) : o \in BOOLEAN}
    \cup {WithOther(ToLower(headerKeyTenantID) :> vs, o) : vs \in ValueLists, o \in BOOLEAN}

\* Heaps a callee may start from: Background alone, one attached tenant, or
\* a tenant attached over another.
SeedHeaps ==
    {<<>>}
    \cup {<<[parent |-> 0, tenant |-> t]>> : t \in TenantIds}
    \cup {<<[parent |-> 0, tenant |-> t], [parent |-> 1, tenant |-> u]>> :
            t \in TenantIds, u \in TenantIds}

----------------------------------------------------------------------------
(* State *)

\* calls[k] is the k-th RPC issued: its caller-side context and metadata,
\* then its callee-side context and error.  from = j > 0 says the caller
\* context is the one call j's callee got back from InjectContext.
IdleCall == [pc |-> "idle", caller |-> 0, from |-> 0, md |-> EmptyMD,
             base |-> 0, callee |-> 0, err |-> Nil]

\* last is the latest single application recorded by the Apply actions:
\* its inputs, the heap before it, and what it returned.
NoOp == [op |-> "none", ctx |-> 0, id |-> 0, md |-> EmptyMD, pre |-> <<>>,
         out |-> 0, outmd |-> EmptyMD, err |-> Nil]

NoArg == [op |-> "none", ctx |-> 0, id |-> 0, md |-> EmptyMD]

\* The running system: application code attaching tenants, RPC calls
\* extracting on the caller and injecting on the callee.
Init ==
    /\ heap = <<>>
    /\ calls = [k \in 1..NumCalls |-> IdleCall]
    /\ last = NoOp
    /\ arg = NoArg

\* Application code: ctx2 := tenanttype.WithTenant(ctx, id)
WithTenant(ctx, id) ==
    /\ Len(heap) < MaxCtx
    /\ heap' = tenanttype_WithTenant(heap, ctx, id).heap
    /\ UNCHANGED <<calls, last, arg>>

\* Caller side of the next call issued: md := Propagator.FromContext(ctx).
\* ctx is any context of the process (j = 0), or the context call j's
\* callee got from InjectContext (j > 0): the next hop of a chain.
Extract(k, ctx, j) ==
    /\ calls[k].pc = "idle"
    /\ k > 1 => calls[k - 1].pc # "idle"
    /\ j # 0 => (j # k /\ calls[j].pc = "done" /\ calls[j].callee = ctx)
    /\ calls' = [calls EXCEPT ![k] = [@ EXCEPT !.pc = "sent", !.caller = ctx,
                                                !.from = j,
                                                !.md = FromContext(heap, ctx)]]
    /\ UNCHANGED <<heap, last, arg>>

\* Callee side of call k, on the fresh context of the incoming request:
\* ctx2, err := Propagator.InjectContext(base, md).
Inject(k, base) ==
    /\ calls[k].pc = "sent"
    /\ LET r == InjectContext(heap, base, calls[k].md) IN
       /\ Len(r.heap) <= MaxCtx
       /\ heap' = r.heap
       /\ calls' = [calls EXCEPT ![k] =
                      [@ EXCEPT !.pc = IF r.err = Nil THEN "done" ELSE "rejected",
                                !.base = base, !.callee = r.ctx, !.err = r.err]]
    /\ UNCHANGED <<last, arg>>

Next ==
    \/ \E ctx \in Contexts(heap), id \in TenantIds : WithTenant(ctx, id)
    \/ \E k \in 1..NumCalls, ctx \in Contexts(heap), j \in 0..NumCalls : Extract(k, ctx, j)
    \/ \E k \in 1..NumCalls : Inject(k, Background)

Spec == Init /\ [][Next]_vars

----------------------------------------------------------------------------
(* One operation applied once to inputs drawn from the bounded sets *)

WireArgs(h) ==
    {[NoArg EXCEPT !.op = "Inject", !.ctx = c, !.md = md] :
        c \in Contexts(h), md \in IncomingMDs}
    \cup {[NoArg EXCEPT !.op = "Extract", !.ctx = c] : c \in Contexts(h)}
    \cup {[NoArg EXCEPT !.op = "WithTenant", !.ctx = c, !.id = id] :
            c \in Contexts(h), id \in TenantIds}

WireInit ==
    /\ heap \in SeedHeaps
    /\ calls = [k \in 1..NumCalls |-> IdleCall]
    /\ last = NoOp
    /\ arg \in WireArgs(heap)

\* ctx2, err := Propagator.InjectContext(arg.ctx, arg.md)
ApplyInject ==
    /\ last.op = "none"
    /\ arg.op = "Inject"
    /\ LET r == InjectContext(heap, arg.ctx, arg.md) IN
       /\ heap' = r.heap
       /\ last' = [NoOp EXCEPT !.op = "Inject", !.ctx = arg.ctx, !.md = arg.md,
                               !.pre = heap, !.out = r.ctx, !.err = r.err]
    /\ UNCHANGED <<calls, arg>>

\* md := Propagator.FromContext(arg.ctx)
ApplyExtract ==
    /\ last.op = "none"
    /\ arg.op = "Extract"
    /\ last' = [NoOp EXCEPT !.op = "Extract", !.ctx = arg.ctx, !.pre = heap,
                            !.outmd = FromContext(heap, arg.ctx)]
    /\ UNCHANGED <<heap, calls, arg>>

\* ctx2 := tenanttype.WithTenant(arg.ctx, arg.id)
ApplyWithTenant ==
    /\ last.op = "none"
    /\ arg.op = "WithTenant"
    /\ LET w == tenanttype_WithTenant(heap, arg.ctx, arg.id) IN
       /\ heap' = w.heap
       /\ last' = [NoOp EXCEPT !.op = "WithTenant", !.ctx = arg.ctx, !.id = arg.id,
                               !.pre = heap, !.out = w.ctx]
    /\ UNCHANGED <<calls, arg>>

WireNext == ApplyInject \/ ApplyExtract \/ ApplyWithTenant

WireSpec == WireInit /\ [][WireNext]_vars

----------------------------------------------------------------------------
(* Vocabulary of the properties *)

HasTenant(h, ctx) == tenanttype_FromContext(h, ctx).err = Nil

TenantOf(h, ctx) == tenanttype_FromContext(h, ctx).tenant

Attached(h, ctx, id) == tenanttype_FromContext(h, ctx) = [tenant |-> id, err |-> Nil]

\* The values a metadata holds under the reserved key, read from the map.
ReservedValues(md) ==
    IF "x-sourcegraph-tenant-id" \in DOMAIN md THEN md["x-sourcegraph-tenant-id"] ELSE <<>>

\* The header value an incoming call is decided on: the first value, or the
\* empty string when there is none.
FirstValue(md) == IF ReservedValues(md) = <<>> THEN <<>> ELSE ReservedValues(md)[1]

RECURSIVE Pow10(_)
Pow10(n) == IF n = 0 THEN 1 ELSE 10 * Pow10(n - 1)

RECURSIVE PositionalSum(_, _)
PositionalSum(s, i) ==
    IF i > Len(s) THEN 0
    ELSE DigitVal(s[i]) * Pow10(Len(s) - i) + PositionalSum(s, i + 1)

\* s is the base-10 numeral of n: digits only, no leading zero, no sign, and
\* its positional value is n.
IsDecimalOf(s, n) ==
    /\ Len(s) >= 1
    /\ \A i \in 1..Len(s) : IsDigit(s[i])
    /\ Len(s) > 1 => s[1] # "0"
    /\ PositionalSum(s, 1) = n

\* Every text the caller side can emit for a positive id no longer than the
\* header values in play.
ValidEncodings == {Itoa(n) : n \in 1..(Pow10(MaxLen + 1) - 1)}

Finished(k) == calls[k].pc \in {"done", "rejected"}

RECURSIVE Origin(_)
Origin(k) == IF calls[k].from = 0 THEN k ELSE Origin(calls[k].from)

----------------------------------------------------------------------------
(* Properties *)

\* C1: a tenant n attached on the caller, extracted, and injected into a
\* callee context without a tenant, gives no error and a callee context
\* whose tenant is n.
C1_RoundTrip ==
    \A k \in 1..NumCalls :
        (Finished(k) /\ HasTenant(heap, calls[k].caller) /\ ~HasTenant(heap, calls[k].base))
        => /\ calls[k].err = Nil
           /\ Attached(heap, calls[k].callee, TenantOf(heap, calls[k].caller))

C1_Witness ==
    \E k \in 1..NumCalls :
        /\ calls[k].pc = "done"
        /\ Attached(heap, calls[k].caller, 42)
        /\ calls[k].callee # calls[k].caller
        /\ Attached(heap, calls[k].callee, 42)

\* C2: Extract gives metadata with the reserved key alone, one value under
\* it: the sentinel when the context has no tenant, the base-10 numeral of
\* the tenant's id otherwise.
C2_ExtractOneEntry ==
    last.op = "Extract" =>
        /\ DOMAIN last.outmd = {ToLower(headerKeyTenantID)}
        /\ Len(MDGet(last.outmd, headerKeyTenantID)) = 1
        /\ IF HasTenant(last.pre, last.ctx)
           THEN IsDecimalOf(MDGet(last.outmd, headerKeyTenantID)[1], TenantOf(last.pre, last.ctx))
           ELSE MDGet(last.outmd, headerKeyTenantID)[1] = <<"n", "o", "n", "e">>

C2_Witness ==
    /\ last.op = "Extract"
    /\ Attached(last.pre, last.ctx, 42)
    /\ last.outmd = ("x-sourcegraph-tenant-id" :> <<<<"4", "2">>>>)

\* C3: a first value that is not empty, not the sentinel and not the
\* encoding of a positive integer is rejected with InvalidArgument, and the
\* context comes back as it went in, nothing attached.
C3_MalformedRejected ==
    (/\ last.op = "Inject"
     /\ FirstValue(last.md) \notin {<<>>, <<"n", "o", "n", "e">>}
     /\ FirstValue(last.md) \notin ValidEncodings)
    => /\ last.err = InvalidArgument
       /\ last.out = last.ctx
       /\ heap = last.pre

C3_Witness ==
    /\ last.op = "Inject"
    /\ FirstValue(last.md) = <<"-", "5">>
    /\ HasTenant(last.pre, last.ctx)
    /\ last.err = InvalidArgument

\* C4: with the reserved key absent, with an empty first value and with the
\* sentinel as first value, Inject returns the same: the context it was
\* given, no error, nothing attached.
C4_MissingIsSentinel ==
    (/\ last.op = "Inject"
     /\ \/ "x-sourcegraph-tenant-id" \notin DOMAIN last.md
        \/ FirstValue(last.md) = <<>>
        \/ FirstValue(last.md) = <<"n", "o", "n", "e">>)
    => /\ last.err = Nil
       /\ last.out = last.ctx
       /\ heap = last.pre

C4_Witness ==
    /\ last.op = "Inject"
    /\ DOMAIN last.md = {"x-other"}
    /\ HasTenant(last.pre, last.ctx)
    /\ last.out = last.ctx

\* C5 as stated: Extract without a tenant gives the sentinel, and Inject of
\* the sentinel gives, on every context, no error and a context without a
\* tenant.
C5_SentinelClearsTenant ==
    /\ (last.op = "Extract" /\ ~HasTenant(last.pre, last.ctx))
       => MDGet(last.outmd, headerKeyTenantID) = <<<<"n", "o", "n", "e">>>>
    /\ (last.op = "Inject" /\ FirstValue(last.md) = <<"n", "o", "n", "e">>)
       => (last.err = Nil /\ ~HasTenant(heap, last.out))

\* C5 amended: Extract without a tenant gives the sentinel, and Inject of
\* the sentinel gives no error and the context it was given: without a
\* tenant exactly when that context had none.
C5_SentinelKeepsContext ==
    /\ (last.op = "Extract" /\ ~HasTenant(last.pre, last.ctx))
       => MDGet(last.outmd, headerKeyTenantID) = <<<<"n", "o", "n", "e">>>>
    /\ (last.op = "Inject" /\ FirstValue(last.md) = <<"n", "o", "n", "e">>)
       => /\ last.err = Nil
          /\ last.out = last.ctx
          /\ tenanttype_FromContext(heap, last.out) = tenanttype_FromContext(last.pre, last.ctx)

C5_Witness ==
    /\ last.op = "Inject"
    /\ FirstValue(last.md) = <<"n", "o", "n", "e">>
    /\ Attached(last.pre, last.ctx, 42)
    /\ Attached(heap, last.out, 42)

\* C6: whatever context the system has built by WithTenant and by
\* successful Inject calls, what Extract emits for it is accepted by Inject:
\* no call is rejected.
C6_EncodeDecodable ==
    /\ \A k \in 1..NumCalls : calls[k].pc # "rejected"
    /\ \A c \in Contexts(heap) :
          InjectContext(heap, Background, FromContext(heap, c)).err = Nil

C6_Witness ==
    \E k \in 1..NumCalls :
        /\ calls[k].pc = "done"
        /\ calls[k].from # 0
        /\ Attached(heap, calls[k].caller, 42)
        /\ calls[k].err = Nil

\* C7: an attachment (WithTenant, or Inject with the encoding of an id)
\* gives a new context whose tenant is the id just attached, and every
\* context that existed before still answers FromContext as before.
C7_AttachKeepsEarlier ==
    /\ last.op \in {"WithTenant", "Inject"}
       => /\ SubSeq(heap, 1, Len(last.pre)) = last.pre
          /\ \A c \in Contexts(last.pre) :
                tenanttype_FromContext(heap, c) = tenanttype_FromContext(last.pre, c)
    /\ last.op = "WithTenant"
       => (last.out \notin Contexts(last.pre) /\ Attached(heap, last.out, last.id))
    /\ (last.op = "Inject" /\ FirstValue(last.md) \in ValidEncodings)
       => /\ last.err = Nil
          /\ last.out \notin Contexts(last.pre)
          /\ Attached(heap, last.out, PositionalSum(FirstValue(last.md), 1))

C7_Witness ==
    /\ last.op = "Inject"
    /\ last.ctx = 2
    /\ Attached(last.pre, 1, 1)
    /\ Attached(last.pre, 2, 42)
    /\ Attached(heap, last.out, 5)
    /\ Attached(heap, 2, 42)

\* C8: Inject on metadata with several values under the reserved key
\* returns what it returns on metadata holding the first value alone.
C8_FirstValueWins ==
    (last.op = "Inject" /\ Len(ReservedValues(last.md)) >= 1)
    => [heap |-> heap, ctx |-> last.out, err |-> last.err]
       = InjectContext(last.pre, last.ctx,
                       "x-sourcegraph-tenant-id" :> <<ReservedValues(last.md)[1]>>)

C8_Witness ==
    /\ last.op = "Inject"
    /\ ReservedValues(last.md) = << <<"4", "2">>, <<"a", "b", "c">> >>
    /\ last.err = Nil
    /\ Attached(heap, last.out, 42)

\* What C9 asks of every state: a finished call has no error and its callee
\* context holds what its own caller's context holds.
StateOfFinished ==
    \A k \in 1..NumCalls :
        Finished(k) =>
            /\ calls[k].err = Nil
            /\ tenanttype_FromContext(heap, calls[k].callee)
               = tenanttype_FromContext(heap, calls[k].caller)

\* What C9 asks of every step: existing contexts answer as before, and a
\* call already issued keeps its caller context and metadata (and, once
\* finished, everything).
StepKeepsOthers ==
    /\ \A c \in Contexts(heap) :
          tenanttype_FromContext(heap', c) = tenanttype_FromContext(heap, c)
    /\ \A k \in 1..NumCalls :
          calls[k].pc # "idle" =>
              /\ calls'[k].caller = calls[k].caller
              /\ calls'[k].md = calls[k].md
              /\ Finished(k) => calls'[k] = calls[k]

\* C9: with calls interleaved, every finished call has no error and its
\* callee context holds what its own caller's context holds (that tenant,
\* or none); and no step changes what an existing context answers, nor the
\* caller context or the metadata of a call already issued.
C9_Isolation == [](StateOfFinished) /\ [][StepKeepsOthers]_vars

C9_Witness ==
    /\ calls[1].pc = "done"
    /\ calls[2].pc = "done"
    /\ Attached(heap, calls[1].caller, 42)
    /\ Attached(heap, calls[1].callee, 42)
    /\ calls[1].callee # calls[1].caller
    /\ ~HasTenant(heap, calls[2].caller)
    /\ ~HasTenant(heap, calls[2].callee)
    /\ Len(heap) = 3

\* C10: along a chain of hops, each callee injecting into a fresh context
\* and extracting from the context it got, the metadata of every hop is the
\* metadata of the first, and the tenant of every callee is the tenant (or
\* the absence of one) of the first caller.
C10_MultiHop ==
    \A k \in 1..NumCalls :
        calls[k].pc # "idle" =>
            /\ calls[k].md = calls[Origin(k)].md
            /\ Finished(k) =>
                  /\ calls[k].err = Nil
                  /\ tenanttype_FromContext(heap, calls[k].callee)
                     = tenanttype_FromContext(heap, calls[Origin(k)].caller)

C10_Witness ==
    /\ calls[1].pc = "done"
    /\ calls[2].pc = "done"
    /\ calls[2].from = 1
    /\ Attached(heap, calls[1].caller, 42)
    /\ calls[2].caller = calls[1].callee
    /\ calls[2].callee \notin {calls[1].caller, calls[1].callee}
    /\ Attached(heap, calls[2].callee, 42)

====
